---------------------------- MODULE Spec2Model ----------------------------
(***************************************************************************)
(* State-machine model of the CivicFlow backend's issue lifecycle and      *)
(* moderation engine: the Issue / Flag / StatusLog collections, and the    *)
(* controllers that mutate them (createIssue, voteIssue, flagIssue,        *)
(* updateIssueStatus, getIssues, reviewFlag, toggleIssueVisibility).       *)
(*                                                                         *)
(* Every controller is an async function: it runs to its next `await`,     *)
(* the awaited database operation executes atomically, and other requests  *)
(* may run in between.  The model has one action per awaited database      *)
(* operation; the synchronous code that follows the await is part of the   *)
(* same action.                                                            *)
(*                                                                         *)
(* Document.save() of an already stored document sends only the paths      *)
(* modified on the in-memory copy ($set of changed scalars, $push for      *)
(* Array.push, $set of the whole array plus a __v check for Array.splice). *)
(***************************************************************************)
EXTENDS Integers, Sequences, FiniteSets, TLC

(***************************************************************************)
(* Bounds of the model.                                                    *)
(***************************************************************************)
NumUsers == 6      \* registered users 1..NumUsers
NumVoters == 2     \* the users among them that send vote requests
MaxIssues == 1     \* issue ids that can ever be created
MaxReq == 2        \* requests that can be in flight at the same time
MaxTime == 2       \* ticks of the wall clock
VoteRequests == 5      \* requests admitted in a run of the voting specifications
FilingRequests == 6    \* ... of the flag-filing specification
FlagRequests == 4      \* ... of the moderation specifications
StatusRequests == 4    \* ... of the status specifications
ListRequests == 4      \* ... of the listing specification
RouteRequests == 4     \* ... of the route specification
HiddenRequests == 5    \* ... of the visibility specification
DeleteRequests == 4    \* ... of the deletion specification
ReviewRequests == 7    \* ... of the review specification
GeoRequests == 3       \* ... of the listing around a centre
ReshowRequests == 8    \* ... of the filings around an admin's show
MaxTiny == 3       \* coordinates 0..MaxTiny of the distance grid

(***************************************************************************)
(* Program constants.                                                      *)
(***************************************************************************)
FlagThreshold == 5

Users == 1..NumUsers
Voters == 1..NumVoters
NoUser == 0                       \* req.user undefined / ObjectId null
Admin == 1
Agent == 2
Issues == 1..MaxIssues
Req == 1..MaxReq
NoDate == 0                       \* Date null

RoleOf(u) ==
  IF u = NoUser THEN "none"
  ELSE IF u = Admin THEN "admin"
  ELSE IF u = Agent THEN "agent"
  ELSE "citizen"

Statuses == {"Reported", "In Progress", "Resolved", "Closed"}
FlagStatuses == {"Pending", "Reviewed", "Dismissed", "Approved"}
NoString == "null"
HiddenAuto == "Auto-hidden due to multiple flags"
HiddenReview == "Hidden due to flag review"
HiddenAdmin == "hidden by admin"  \* a hiddenReason supplied in the request body

VARIABLES
  issues,      \* Issue collection: issue id -> document
  flags,       \* Flag collection: issue id -> user -> sequence of Flag documents
  statusLogs,  \* StatusLog collection: issue id -> entries in insertion order
  now,         \* wall clock read by `new Date()`
  postSaveIsNew, \* value of `this.isNew` seen by Flag's post('save') hook after an insert
  req,         \* request slot -> the request in flight in it (locals of the handler)
  admitted,    \* number of requests admitted so far
  last         \* the response most recently sent

vars == <<issues, flags, statusLogs, now, postSaveIsNew, req, admitted, last>>

----------------------------------------------------------------------------
(***************************************************************************)
(* Sequence helpers (Array.prototype.includes / indexOf / splice).         *)
(***************************************************************************)
includes(s, x) == \E k \in 1..Len(s) : s[k] = x

indexOf(s, x) ==
  IF includes(s, x) THEN CHOOSE k \in 1..Len(s) : s[k] = x /\ \A j \in 1..(k - 1) : s[j] # x
  ELSE 0

splice1(s, k) == SubSeq(s, 1, k - 1) \o SubSeq(s, k + 1, Len(s))

Range(s) == {s[k] : k \in 1..Len(s)}

----------------------------------------------------------------------------
(***************************************************************************)
(* Documents.                                                              *)
(***************************************************************************)
\* issueSchema defaults; life tracks whether the _id is unused, stored or deleted.
\* v is the versionKey __v, kept relative to the stored document: the stored
\* document has v = 0, and a loaded copy has v = 1 once a versioned write has
\* incremented the stored __v after the copy was read.
NewIssue ==
  [life |-> "live", status |-> "Reported", assignedTo |-> NoUser,
   estimatedResolutionDate |-> NoDate, actualResolutionDate |-> NoDate,
   isHidden |-> FALSE, hiddenReason |-> NoString, hiddenBy |-> NoUser,
   flagCount |-> 0, upvotes |-> 0, upvotedBy |-> <<>>, v |-> 0]

NoIssue == [NewIssue EXCEPT !.life = "unused"]

\* flagSchema defaults
NewFlag(u) ==
  [flaggedBy |-> u, status |-> "Pending", reviewedBy |-> NoUser,
   reviewedAt |-> NoDate, actionTaken |-> NoString]

\* the locals of a handler between two awaits
Idle ==
  [op |-> "idle", pc |-> "idle", user |-> NoUser, issue |-> 0, arg |-> NoString,
   arg2 |-> NoString, target |-> NoUser, est |-> NoDate, when |-> NoDate, doc |-> NoIssue]

\* a filter without a location part
NoGeoQuery == [near |-> <<>>, maxDistance |-> 0]

\* the last request answered: what was asked, the filters a listing gave to
\* Issue.find and to Issue.countDocuments, and the response
NoResponse ==
  [op |-> "none", user |-> NoUser, issue |-> 0, arg |-> NoString,
   lat |-> "", lng |-> "", distance |-> "",
   pageQuery |-> NoGeoQuery, countQuery |-> NoGeoQuery,
   code |-> 0, message |-> NoString, result |-> {}, total |-> 0]

Response(r, code, message) ==
  [op |-> req[r].op, user |-> req[r].user, issue |-> req[r].issue, arg |-> req[r].arg,
   lat |-> "", lng |-> "", distance |-> "",
   pageQuery |-> NoGeoQuery, countQuery |-> NoGeoQuery,
   code |-> code, message |-> message, result |-> {}, total |-> 0]

AllIdle == \A r \in Req : req[r].op = "idle"

\* A schedule: whether requests are served one after another, and how many
\* requests a run admits.
Serial(budget) == [serial |-> TRUE, budget |-> budget]
Concurrent(budget) == [serial |-> FALSE, budget |-> budget]

\* A request is admitted into the first free slot; under a serial schedule only
\* when no other request is in flight.
Admit(r, sched) ==
  /\ req[r].op = "idle"
  /\ \A q \in Req : q < r => req[q].op # "idle"
  /\ sched.serial => AllIdle
  /\ admitted < sched.budget
  /\ admitted' = admitted + 1

Init ==
  /\ issues = [i \in Issues |-> NoIssue]
  /\ flags = [i \in Issues |-> [u \in Users |-> <<>>]]
  /\ statusLogs = [i \in Issues |-> <<>>]
  /\ now = 1
  /\ postSaveIsNew \in BOOLEAN
  /\ req = [r \in Req |-> Idle]
  /\ admitted = 0
  /\ last = NoResponse

\* time passes
Tick ==
  /\ now < MaxTime
  /\ now' = now + 1
  /\ UNCHANGED <<issues, flags, statusLogs, postSaveIsNew, req, admitted, last>>

----------------------------------------------------------------------------
(***************************************************************************)
(* Issue model methods.                                                    *)
(***************************************************************************)
\* addUpvote without its includes() guard
addUpvoteUnguarded(doc, userId) ==
  [doc EXCEPT !.upvotedBy = Append(@, userId), !.upvotes = @ + 1]

addUpvote(doc, userId) ==
  IF ~includes(doc.upvotedBy, userId)
  THEN [doc EXCEPT !.upvotedBy = Append(@, userId), !.upvotes = @ + 1]
  ELSE doc

removeUpvote(doc, userId) ==
  LET index == indexOf(doc.upvotedBy, userId) IN
  IF index > 0
  THEN [doc EXCEPT !.upvotedBy = splice1(@, index), !.upvotes = @ - 1]
  ELSE doc

checkAutoHide(doc) ==
  IF doc.flagCount >= FlagThreshold /\ ~doc.isHidden
  THEN [doc EXCEPT !.isHidden = TRUE, !.hiddenReason = HiddenAuto]
  ELSE doc

(***************************************************************************)
(* Document.save() of a loaded Issue: `loaded` is the document as read,    *)
(* `local` the in-memory copy after the handler's assignments, `stored`    *)
(* what the collection holds when the update executes.                     *)
(***************************************************************************)
ScalarPaths ==
  {"status", "assignedTo", "estimatedResolutionDate", "actualResolutionDate",
   "isHidden", "hiddenReason", "hiddenBy", "upvotes"}

pushed(loaded, local) == Len(local.upvotedBy) > Len(loaded.upvotedBy)
spliced(loaded, local) == Len(local.upvotedBy) < Len(loaded.upvotedBy)

\* the update is refused: the document is gone, or a versioned array write
\* finds another __v than the one loaded
saveFails(stored, loaded, local) ==
  \/ stored.life # "live"
  \/ spliced(loaded, local) /\ stored.v # loaded.v

\* a save that writes the whole in-memory copy
saveWhole(stored, loaded, local) == local

saveDelta(stored, loaded, local) ==
  LET scalars == [f \in DOMAIN stored |->
                    IF f \in ScalarPaths /\ local[f] # loaded[f] THEN local[f] ELSE stored[f]]
  IN  IF pushed(loaded, local)
      THEN [scalars EXCEPT
              !.upvotedBy = stored.upvotedBy \o
                            SubSeq(local.upvotedBy, Len(loaded.upvotedBy) + 1, Len(local.upvotedBy))]
      ELSE IF spliced(loaded, local)
      THEN [scalars EXCEPT !.upvotedBy = local.upvotedBy]
      ELSE scalars

\* The slots after request r's save: r continues as `next`; an array write
\* increments the stored __v, so every other loaded copy of the issue is now older.
afterSave(r, i, loaded, local, next) ==
  [q \in Req |->
     IF q = r THEN next
     ELSE IF (pushed(loaded, local) \/ spliced(loaded, local))
             /\ req[q].issue = i /\ req[q].doc.life = "live"
     THEN [req[q] EXCEPT !.doc.v = 1]
     ELSE req[q]]

----------------------------------------------------------------------------
(***************************************************************************)
(* createIssue: POST /issues                                               *)
(***************************************************************************)
\* issue.save(): insert with a fresh _id
createIssue(r, u, i, sched) ==
  /\ Admit(r, sched)
  /\ issues[i].life = "unused"
  /\ \A j \in Issues : j < i => issues[j].life # "unused"
  /\ issues' = [issues EXCEPT ![i] = NewIssue]
  /\ req' = [req EXCEPT ![r] = [Idle EXCEPT !.op = "create", !.pc = "log", !.user = u, !.issue = i]]
  /\ UNCHANGED <<flags, statusLogs, now, postSaveIsNew, last>>

\* a status log that keeps one document per issue and overwrites it
createStatusLogUpsert(logs, status, updatedBy, previousStatus, isSystemGenerated) ==
  <<[status |-> status, previousStatus |-> previousStatus,
     updatedBy |-> updatedBy, isSystemGenerated |-> isSystemGenerated,
     createdAt |-> now]>>

\* StatusLog.createStatusLog(issueId, status, updatedBy, options)
createStatusLog(logs, status, updatedBy, previousStatus, isSystemGenerated) ==
  Append(logs, [status |-> status, previousStatus |-> previousStatus,
                updatedBy |-> updatedBy, isSystemGenerated |-> isSystemGenerated,
                createdAt |-> now])

createIssueLog(r) ==
  /\ req[r].op = "create" /\ req[r].pc = "log"
  /\ statusLogs' = [statusLogs EXCEPT ![req[r].issue] =
                      createStatusLog(@, "Reported", req[r].user, NoString, TRUE)]
  /\ last' = Response(r, 201, "Issue created successfully")
  /\ req' = [req EXCEPT ![r] = Idle]
  /\ UNCHANGED <<issues, flags, now, postSaveIsNew, admitted>>

----------------------------------------------------------------------------
(***************************************************************************)
(* voteIssue: POST /issues/:id/vote                                        *)
(***************************************************************************)
VoteActions == {"upvote", "remove", "other"}

\* the in-memory copy after addUpvote / removeUpvote
voteLocal(doc, u, action) ==
  IF action = "upvote" THEN addUpvote(doc, u)
  ELSE IF action = "remove" THEN removeUpvote(doc, u)
  ELSE doc

voteMessage(doc, u, action) ==
  IF action = "upvote"
  THEN IF addUpvote(doc, u) # doc THEN "Issue upvoted successfully"
       ELSE "You have already upvoted this issue"
  ELSE IF removeUpvote(doc, u) # doc THEN "Upvote removed successfully"
       ELSE "You have not upvoted this issue"

\* Issue.findById, the hidden check and the in-memory mutation
voteIssueFind(r, u, i, action, sched) ==
  /\ Admit(r, sched)
  /\ LET rq == [Idle EXCEPT !.op = "vote", !.user = u, !.issue = i, !.arg = action]
         rsp(code, message) == [NoResponse EXCEPT !.op = "vote", !.user = u, !.issue = i,
                                  !.arg = action, !.code = code, !.message = message]
     IN  IF issues[i].life # "live"
         THEN /\ last' = rsp(404, "Issue not found")
              /\ UNCHANGED req
         ELSE IF issues[i].isHidden
         THEN /\ last' = rsp(400, "Cannot vote on hidden issues")
              /\ UNCHANGED req
         ELSE IF action \notin {"upvote", "remove"}
         THEN /\ last' = rsp(400, "Invalid action. Use \"upvote\" or \"remove\"")
              /\ UNCHANGED req
         ELSE /\ req' = [req EXCEPT ![r] = [rq EXCEPT !.pc = "save", !.doc = issues[i]]]
              /\ UNCHANGED last
  /\ UNCHANGED <<issues, flags, statusLogs, now, postSaveIsNew>>

\* issue.save() and the response
voteIssueSave(r) ==
  /\ req[r].op = "vote" /\ req[r].pc = "save"
  /\ LET i == req[r].issue
         loaded == req[r].doc
         local == voteLocal(loaded, req[r].user, req[r].arg)
     IN  IF local = loaded
         THEN \* nothing modified: save() writes nothing
              /\ last' = Response(r, 200, voteMessage(loaded, req[r].user, req[r].arg))
              /\ req' = [req EXCEPT ![r] = Idle]
              /\ UNCHANGED issues
         ELSE IF saveFails(issues[i], loaded, local)
         THEN /\ last' = Response(r, 500, "Failed to process vote")
              /\ req' = [req EXCEPT ![r] = Idle]
              /\ UNCHANGED issues
         ELSE /\ issues' = [issues EXCEPT ![i] = saveDelta(@, loaded, local)]
              /\ last' = Response(r, 200, voteMessage(loaded, req[r].user, req[r].arg))
              /\ req' = afterSave(r, i, loaded, local, Idle)
  /\ UNCHANGED <<flags, statusLogs, now, postSaveIsNew, admitted>>

----------------------------------------------------------------------------
(***************************************************************************)
(* toggleIssueVisibility: PUT /admin/issues/:id/visibility                 *)
(***************************************************************************)
toggleLocal(doc, u, isHidden, hiddenReason) ==
  [doc EXCEPT !.isHidden = isHidden,
              !.hiddenReason = IF isHidden THEN hiddenReason ELSE NoString,
              !.hiddenBy = IF isHidden THEN u ELSE NoUser]

toggleIssueVisibilityFind(r, u, i, isHidden, hiddenReason, sched) ==
  /\ Admit(r, sched)
  /\ IF issues[i].life # "live"
     THEN /\ last' = [NoResponse EXCEPT !.op = "toggle", !.user = u, !.issue = i,
                        !.code = 404, !.message = "Issue not found"]
          /\ UNCHANGED req
     ELSE /\ req' = [req EXCEPT ![r] =
                       [Idle EXCEPT !.op = "toggle", !.pc = "save", !.user = u, !.issue = i,
                                    !.arg = IF isHidden THEN "hide" ELSE "show",
                                    !.arg2 = hiddenReason, !.doc = issues[i]]]
          /\ UNCHANGED last
  /\ UNCHANGED <<issues, flags, statusLogs, now, postSaveIsNew>>

toggleIssueVisibilitySave(r) ==
  /\ req[r].op = "toggle" /\ req[r].pc = "save"
  /\ LET i == req[r].issue
         loaded == req[r].doc
         local == toggleLocal(loaded, req[r].user, req[r].arg = "hide", req[r].arg2)
         done == Response(r, 200, IF req[r].arg = "hide" THEN "Issue hidden successfully"
                                  ELSE "Issue made visible successfully")
     IN  IF local = loaded
         THEN /\ last' = done
              /\ req' = [req EXCEPT ![r] = Idle]
              /\ UNCHANGED issues
         ELSE IF saveFails(issues[i], loaded, local)
         THEN /\ last' = Response(r, 500, "Failed to update issue visibility")
              /\ req' = [req EXCEPT ![r] = Idle]
              /\ UNCHANGED issues
         ELSE /\ issues' = [issues EXCEPT ![i] = saveDelta(@, loaded, local)]
              /\ last' = done
              /\ req' = afterSave(r, i, loaded, local, Idle)
  /\ UNCHANGED <<flags, statusLogs, now, postSaveIsNew, admitted>>

----------------------------------------------------------------------------
(***************************************************************************)
(* flagIssue: POST /issues/:id/flag                                        *)
(***************************************************************************)
\* Flag.hasUserFlagged(issueId, userId)
hasUserFlagged(i, u) == flags[i][u] # <<>>

\* a Flag collection without the unique index
noUniqueIndex(i, u) == TRUE

\* the unique index { issueId: 1, flaggedBy: 1 } accepts the insert
uniqueIndexAllows(i, u) == flags[i][u] = <<>>

\* Issue.findById
flagIssueFind(r, u, i, sched) ==
  /\ Admit(r, sched)
  /\ IF issues[i].life # "live"
     THEN /\ last' = [NoResponse EXCEPT !.op = "flag", !.user = u, !.issue = i,
                        !.code = 404, !.message = "Issue not found"]
          /\ UNCHANGED req
     ELSE /\ req' = [req EXCEPT ![r] =
                       [Idle EXCEPT !.op = "flag", !.pc = "check", !.user = u, !.issue = i]]
          /\ UNCHANGED last
  /\ UNCHANGED <<issues, flags, statusLogs, now, postSaveIsNew>>

\* Flag.hasUserFlagged and the duplicate response
flagIssueCheck(r) ==
  /\ req[r].op = "flag" /\ req[r].pc = "check"
  /\ IF hasUserFlagged(req[r].issue, req[r].user)
     THEN /\ last' = Response(r, 400, "You have already flagged this issue")
          /\ req' = [req EXCEPT ![r] = Idle]
     ELSE /\ req' = [req EXCEPT ![r].pc = "insert"]
          /\ UNCHANGED last
  /\ UNCHANGED <<issues, flags, statusLogs, now, postSaveIsNew, admitted>>

\* flag.save(): the insert; a duplicate key error is not a ValidationError and
\* is answered by the catch-all 500.  The post('save') hook runs its body only
\* if it sees this.isNew.
flagIssueInsert(r) ==
  /\ req[r].op = "flag" /\ req[r].pc = "insert"
  /\ LET i == req[r].issue
         u == req[r].user
     IN  IF ~uniqueIndexAllows(i, u)
         THEN /\ last' = Response(r, 500, "Failed to flag issue")
              /\ req' = [req EXCEPT ![r] = Idle]
              /\ UNCHANGED flags
         ELSE /\ flags' = [flags EXCEPT ![i][u] = Append(@, NewFlag(u))]
              /\ IF postSaveIsNew
                 THEN /\ req' = [req EXCEPT ![r].pc = "inc"]
                      /\ UNCHANGED last
                 ELSE /\ last' = Response(r, 200, "Issue flagged successfully")
                      /\ req' = [req EXCEPT ![r] = Idle]
  /\ UNCHANGED <<issues, statusLogs, now, postSaveIsNew, admitted>>

\* post('save'): Issue.findByIdAndUpdate(issueId, { $inc: { flagCount: 1 } })
flagPostSaveInc(r) ==
  /\ req[r].op = "flag" /\ req[r].pc = "inc"
  /\ issues' = [issues EXCEPT ![req[r].issue] =
                  IF @.life = "live" THEN [@ EXCEPT !.flagCount = @ + 1] ELSE @]
  /\ req' = [req EXCEPT ![r].pc = "hookFind"]
  /\ UNCHANGED <<flags, statusLogs, now, postSaveIsNew, admitted, last>>

\* post('save'): Issue.findById(issueId)
flagPostSaveFind(r) ==
  /\ req[r].op = "flag" /\ req[r].pc = "hookFind"
  /\ IF issues[req[r].issue].life # "live"
     THEN /\ last' = Response(r, 200, "Issue flagged successfully")
          /\ req' = [req EXCEPT ![r] = Idle]
     ELSE /\ req' = [req EXCEPT ![r].pc = "hookSave", ![r].doc = issues[req[r].issue]]
          /\ UNCHANGED last
  /\ UNCHANGED <<issues, flags, statusLogs, now, postSaveIsNew, admitted>>

\* post('save'): issue.checkAutoHide(); issue.save()
flagPostSaveSave(r) ==
  /\ req[r].op = "flag" /\ req[r].pc = "hookSave"
  /\ LET i == req[r].issue
         loaded == req[r].doc
         local == checkAutoHide(loaded)
     IN  IF local = loaded
         THEN /\ last' = Response(r, 200, "Issue flagged successfully")
              /\ req' = [req EXCEPT ![r] = Idle]
              /\ UNCHANGED issues
         ELSE IF saveFails(issues[i], loaded, local)
         THEN /\ last' = Response(r, 500, "Failed to flag issue")
              /\ req' = [req EXCEPT ![r] = Idle]
              /\ UNCHANGED issues
         ELSE /\ issues' = [issues EXCEPT ![i] = saveDelta(@, loaded, local)]
              /\ last' = Response(r, 200, "Issue flagged successfully")
              /\ req' = afterSave(r, i, loaded, local, Idle)
  /\ UNCHANGED <<flags, statusLogs, now, postSaveIsNew, admitted>>

----------------------------------------------------------------------------
(***************************************************************************)
(* flag.remove(): removal of the Flag document of user f on issue i.       *)
(***************************************************************************)
\* pre('remove'): Issue.findByIdAndUpdate(this.issueId, { $inc: { flagCount: -1 } })
flagPreRemove(r, i, f, sched) ==
  /\ Admit(r, sched)
  /\ flags[i][f] # <<>>
  /\ issues' = [issues EXCEPT ![i] =
                  IF @.life = "live" THEN [@ EXCEPT !.flagCount = @ - 1] ELSE @]
  /\ req' = [req EXCEPT ![r] =
               [Idle EXCEPT !.op = "unflag", !.pc = "remove", !.issue = i, !.target = f]]
  /\ UNCHANGED <<flags, statusLogs, now, postSaveIsNew, last>>

\* the document is deleted
flagRemove(r) ==
  /\ req[r].op = "unflag" /\ req[r].pc = "remove"
  /\ flags' = [flags EXCEPT ![req[r].issue][req[r].target] = <<>>]
  /\ last' = Response(r, 200, "Flag removed")
  /\ req' = [req EXCEPT ![r] = Idle]
  /\ UNCHANGED <<issues, statusLogs, now, postSaveIsNew, admitted>>

----------------------------------------------------------------------------
(***************************************************************************)
(* reviewFlag: PUT /admin/flags/:id/review                                 *)
(***************************************************************************)
ReviewStatuses == {"Reviewed", "Dismissed", "Approved"}
ReviewActions == {"No Action", "Issue Hidden"}

\* flag.markAsReviewed(reviewedBy, reviewNotes, actionTaken, status)
markAsReviewed(flag, reviewedBy, actionTaken, status) ==
  [flag EXCEPT !.status = status, !.reviewedBy = reviewedBy,
               !.reviewedAt = now, !.actionTaken = actionTaken]

\* a review that leaves an issue that is already hidden as it is
reviewLocalKeep(doc, reviewer) ==
  IF doc.isHidden THEN doc
  ELSE [doc EXCEPT !.isHidden = TRUE, !.hiddenReason = HiddenReview, !.hiddenBy = reviewer]

reviewLocal(doc, reviewer) ==
  [doc EXCEPT !.isHidden = TRUE, !.hiddenReason = HiddenReview, !.hiddenBy = reviewer]

\* Flag.findById(id).populate('issueId'): the flag of user f on issue i
reviewFlagFind(r, u, i, f, status, actionTaken, sched) ==
  /\ Admit(r, sched)
  /\ IF flags[i][f] = <<>>
     THEN /\ last' = [NoResponse EXCEPT !.op = "review", !.user = u, !.issue = i,
                        !.arg = status, !.code = 404, !.message = "Flag not found"]
          /\ UNCHANGED req
     ELSE /\ req' = [req EXCEPT ![r] =
                       [Idle EXCEPT !.op = "review", !.pc = "save", !.user = u, !.issue = i,
                                    !.arg = status, !.arg2 = actionTaken, !.target = f,
                                    !.doc = issues[i]]]
          /\ UNCHANGED last
  /\ UNCHANGED <<issues, flags, statusLogs, now, postSaveIsNew>>

\* flag.markAsReviewed(...): the flag's save
reviewFlagSave(r) ==
  /\ req[r].op = "review" /\ req[r].pc = "save"
  /\ LET i == req[r].issue
         f == req[r].target
     IN  IF flags[i][f] = <<>>
         THEN /\ last' = Response(r, 500, "Failed to review flag")
              /\ req' = [req EXCEPT ![r] = Idle]
              /\ UNCHANGED flags
         ELSE /\ flags' = [flags EXCEPT ![i][f][1] =
                             markAsReviewed(@, req[r].user, req[r].arg2, req[r].arg)]
              /\ IF req[r].arg2 = "Issue Hidden" /\ req[r].doc.life = "live"
                 THEN /\ req' = [req EXCEPT ![r].pc = "hide"]
                      /\ UNCHANGED last
                 ELSE /\ last' = Response(r, 200, "Flag reviewed successfully")
                      /\ req' = [req EXCEPT ![r] = Idle]
  /\ UNCHANGED <<issues, statusLogs, now, postSaveIsNew, admitted>>

\* flag.issueId.save()
reviewFlagHide(r) ==
  /\ req[r].op = "review" /\ req[r].pc = "hide"
  /\ LET i == req[r].issue
         loaded == req[r].doc
         local == reviewLocal(loaded, req[r].user)
     IN  IF local = loaded
         THEN /\ last' = Response(r, 200, "Flag reviewed successfully")
              /\ req' = [req EXCEPT ![r] = Idle]
              /\ UNCHANGED issues
         ELSE IF saveFails(issues[i], loaded, local)
         THEN /\ last' = Response(r, 500, "Failed to review flag")
              /\ req' = [req EXCEPT ![r] = Idle]
              /\ UNCHANGED issues
         ELSE /\ issues' = [issues EXCEPT ![i] = saveDelta(@, loaded, local)]
              /\ last' = Response(r, 200, "Flag reviewed successfully")
              /\ req' = afterSave(r, i, loaded, local, Idle)
  /\ UNCHANGED <<flags, statusLogs, now, postSaveIsNew, admitted>>

----------------------------------------------------------------------------
(***************************************************************************)
(* updateIssueStatus: PUT /issues/:id/status                               *)
(***************************************************************************)
StatusTargets == Statuses \cup {"Invalid"}   \* body.status, valid or not
EstimateDate == MaxTime + 1                  \* an estimatedResolutionDate in the body

\* updateData that never carries actualResolutionDate
statusLocalNoStamp(doc, status, estimatedResolutionDate, assignedTo, date) ==
  [doc EXCEPT
     !.status = status,
     !.estimatedResolutionDate = IF estimatedResolutionDate # NoDate
                                 THEN estimatedResolutionDate ELSE @,
     !.assignedTo = IF assignedTo # NoUser THEN assignedTo ELSE @]

\* updateData that stamps actualResolutionDate on every Resolved / Closed
statusLocalRestamp(doc, status, estimatedResolutionDate, assignedTo, date) ==
  [doc EXCEPT
     !.status = status,
     !.estimatedResolutionDate = IF estimatedResolutionDate # NoDate
                                 THEN estimatedResolutionDate ELSE @,
     !.assignedTo = IF assignedTo # NoUser THEN assignedTo ELSE @,
     !.actualResolutionDate = IF status \in {"Resolved", "Closed"} THEN date ELSE @]

\* updateData of a handler that lets the status only move forward
statusLocalForward(doc, status, estimatedResolutionDate, assignedTo, date) ==
  LET rank(st) == CASE st = "Reported" -> 1 [] st = "In Progress" -> 2
                    [] st = "Resolved" -> 3 [] OTHER -> 4
      next == IF rank(status) >= rank(doc.status) THEN status ELSE doc.status
  IN  [doc EXCEPT
         !.status = next,
         !.estimatedResolutionDate = IF estimatedResolutionDate # NoDate
                                     THEN estimatedResolutionDate ELSE @,
         !.assignedTo = IF assignedTo # NoUser THEN assignedTo ELSE @,
         !.actualResolutionDate = IF next \in {"Resolved", "Closed"} /\ @ = NoDate
                                  THEN date ELSE @]

\* updateData, assigned onto the loaded document (Object.assign)
statusLocal(doc, status, estimatedResolutionDate, assignedTo, date) ==
  [doc EXCEPT
     !.status = status,
     !.estimatedResolutionDate = IF estimatedResolutionDate # NoDate
                                 THEN estimatedResolutionDate ELSE @,
     !.assignedTo = IF assignedTo # NoUser THEN assignedTo ELSE @,
     !.actualResolutionDate = IF status \in {"Resolved", "Closed"} /\ @ = NoDate
                              THEN date ELSE @]

\* a handler that does not look at validationResult
updateIssueStatusFindUnchecked(r, u, i, status, est, assignedTo, sched) ==
  /\ Admit(r, sched)
  /\ IF issues[i].life # "live"
     THEN /\ last' = [NoResponse EXCEPT !.op = "status", !.user = u, !.issue = i,
                        !.arg = status, !.code = 404, !.message = "Issue not found"]
          /\ UNCHANGED req
     ELSE /\ req' = [req EXCEPT ![r] =
                       [Idle EXCEPT !.op = "status", !.pc = "save", !.user = u, !.issue = i,
                                    !.arg = status, !.target = assignedTo,
                                    !.est = est, !.when = now, !.doc = issues[i]]]
          /\ UNCHANGED last
  /\ UNCHANGED <<issues, flags, statusLogs, now, postSaveIsNew>>

\* validationResult, Issue.findById and the construction of updateData
updateIssueStatusFind(r, u, i, status, est, assignedTo, sched) ==
  /\ Admit(r, sched)
  /\ LET rsp(code, message) == [NoResponse EXCEPT !.op = "status", !.user = u, !.issue = i,
                                  !.arg = status, !.code = code, !.message = message]
     IN  IF status \notin Statuses
         THEN /\ last' = rsp(400, "Validation failed")
              /\ UNCHANGED req
         ELSE IF issues[i].life # "live"
         THEN /\ last' = rsp(404, "Issue not found")
              /\ UNCHANGED req
         ELSE /\ req' = [req EXCEPT ![r] =
                           [Idle EXCEPT !.op = "status", !.pc = "save", !.user = u, !.issue = i,
                                        !.arg = status, !.target = assignedTo,
                                        !.est = est, !.when = now, !.doc = issues[i]]]
              /\ UNCHANGED last
  /\ UNCHANGED <<issues, flags, statusLogs, now, postSaveIsNew>>

\* issue.save()
updateIssueStatusSave(r) ==
  /\ req[r].op = "status" /\ req[r].pc = "save"
  /\ LET i == req[r].issue
         loaded == req[r].doc
         local == statusLocal(loaded, req[r].arg, req[r].est, req[r].target, req[r].when)
     IN  IF local = loaded
         THEN /\ req' = [req EXCEPT ![r].pc = "log"]
              /\ UNCHANGED <<issues, last>>
         ELSE IF saveFails(issues[i], loaded, local)
         THEN /\ last' = Response(r, 500, "Failed to update issue status")
              /\ req' = [req EXCEPT ![r] = Idle]
              /\ UNCHANGED issues
         ELSE /\ issues' = [issues EXCEPT ![i] = saveDelta(@, loaded, local)]
              /\ req' = afterSave(r, i, loaded, local, [req[r] EXCEPT !.pc = "log"])
              /\ UNCHANGED last
  /\ UNCHANGED <<flags, statusLogs, now, postSaveIsNew, admitted>>

\* the status read from the collection when the log entry is written
storedStatus(r) == issues[req[r].issue].status

\* the value the handler passes as options.previousStatus
previousStatus(r) == req[r].doc.status

\* StatusLog.createStatusLog(issue._id, status, req.user._id, { previousStatus, ... })
updateIssueStatusLog(r) ==
  /\ req[r].op = "status" /\ req[r].pc = "log"
  /\ statusLogs' = [statusLogs EXCEPT ![req[r].issue] =
                      createStatusLog(@, req[r].arg, req[r].user, previousStatus(r), FALSE)]
  /\ last' = Response(r, 200, "Issue status updated successfully")
  /\ req' = [req EXCEPT ![r] = Idle]
  /\ UNCHANGED <<issues, flags, now, postSaveIsNew, admitted>>

----------------------------------------------------------------------------
(***************************************************************************)
(* deleteIssue: DELETE /issues/:id                                         *)
(***************************************************************************)
\* Issue.findById
deleteIssueFind(r, u, i, sched) ==
  /\ Admit(r, sched)
  /\ IF issues[i].life # "live"
     THEN /\ last' = [NoResponse EXCEPT !.op = "delete", !.user = u, !.issue = i,
                        !.code = 404, !.message = "Issue not found"]
          /\ UNCHANGED req
     ELSE /\ req' = [req EXCEPT ![r] =
                       [Idle EXCEPT !.op = "delete", !.pc = "cascade", !.user = u, !.issue = i]]
          /\ UNCHANGED last
  /\ UNCHANGED <<issues, flags, statusLogs, now, postSaveIsNew>>

\* the two deleteMany of the Promise.all execute in either order
afterCascade(pc, done) ==
  IF pc = "cascade" THEN (IF done = "logs" THEN "cascadeFlags" ELSE "cascadeLogs")
  ELSE "delete"

\* StatusLog.deleteMany({ issueId: id })
deleteIssueLogs(r) ==
  /\ req[r].op = "delete" /\ req[r].pc \in {"cascade", "cascadeLogs"}
  /\ statusLogs' = [statusLogs EXCEPT ![req[r].issue] = <<>>]
  /\ req' = [req EXCEPT ![r].pc = afterCascade(@, "logs")]
  /\ UNCHANGED <<issues, flags, now, postSaveIsNew, admitted, last>>

\* Flag.deleteMany({ issueId: id }): a query, it runs no pre('remove') hook
deleteIssueFlags(r) ==
  /\ req[r].op = "delete" /\ req[r].pc \in {"cascade", "cascadeFlags"}
  /\ flags' = [flags EXCEPT ![req[r].issue] = [u \in Users |-> <<>>]]
  /\ req' = [req EXCEPT ![r].pc = afterCascade(@, "flags")]
  /\ UNCHANGED <<issues, statusLogs, now, postSaveIsNew, admitted, last>>

\* Issue.findByIdAndDelete(id) and the response
deleteIssueDelete(r) ==
  /\ req[r].op = "delete" /\ req[r].pc = "delete"
  /\ issues' = [issues EXCEPT ![req[r].issue].life = "deleted"]
  /\ last' = Response(r, 200, "Issue deleted successfully")
  /\ req' = [req EXCEPT ![r] = Idle]
  /\ UNCHANGED <<flags, statusLogs, now, postSaveIsNew, admitted>>

----------------------------------------------------------------------------
(***************************************************************************)
(* getIssues: GET /issues (behind optionalAuthenticate: the caller may be  *)
(* NoUser).                                                                *)
(***************************************************************************)
IncludeHiddenValues == {"", "true", "false"}   \* req.query.includeHidden; "" when absent

truthy(str) == str # ""

\* whether the handler adds query.isHidden = false
hidesHidden(caller, includeHidden) ==
  ~truthy(includeHidden) \/ (caller # NoUser /\ RoleOf(caller) # "admin")

\* the documents Issue.find(query) returns
findIssues(caller, includeHidden) ==
  {i \in Issues : /\ issues[i].life = "live"
                  /\ hidesHidden(caller, includeHidden) => ~issues[i].isHidden}

LatValues == {"", "0", "91"}      \* req.query.lat; "" when absent
LngValues == {"", "0", "1"}       \* req.query.lng; "" when absent
DistanceValues == {"5", "200"}    \* req.query.distance, kilometres; 5 when absent

\* parseFloat of a decimal numeral
parseFloat(str) == CHOOSE n \in 0..200 : ToString(n) = str

isValidLongitude(lng) == lng >= -180 /\ lng <= 180
isValidLatitude(lat) == lat >= -90 /\ lat <= 90
isValidCoordinates(lng, lat) == isValidLongitude(lng) /\ isValidLatitude(lat)

kmToMeters(km) == km * 1000

\* location.coordinates of issue i, [longitude, latitude] in degrees: the
\* issues are filed along the equator
coordinates(i) == <<i, 0>>

\* the filter { location: { $near: { $geometry, $maxDistance } } }
createNearbyQuery(longitude, latitude, maxDistanceKm) ==
  [near |-> <<longitude, latitude>>, maxDistance |-> kmToMeters(maxDistanceKm)]

\* metres along one degree of the equator on MongoDB's sphere
MetersPerDegree == 111319

\* whether issue i satisfies the $near part of a filter whose centre lies on
\* the equator
matchesNear(i, geoQuery) ==
  LET dLng == coordinates(i)[1] - geoQuery.near[1]
  IN  \/ geoQuery = NoGeoQuery
      \/ MetersPerDegree * (IF dLng < 0 THEN -dLng ELSE dLng) <= geoQuery.maxDistance

\* the documents Issue.find({ ...query, ...geoQuery }) returns
findNearby(caller, includeHidden, geoQuery) ==
  {i \in findIssues(caller, includeHidden) : matchesNear(i, geoQuery)}

\* Issue.countDocuments(filter) runs the filter in a $match stage, where
\* MongoDB does not allow $near: the promise is rejected
countDocumentsRejects(geoQuery) == geoQuery # NoGeoQuery

getIssues(r, caller, includeHidden, lat, lng, distance, sched) ==
  LET nearby == createNearbyQuery(parseFloat(lng), parseFloat(lat), parseFloat(distance))
      geoQuery == IF truthy(lat) /\ truthy(lng)
                     /\ isValidCoordinates(parseFloat(lng), parseFloat(lat))
                  THEN nearby ELSE NoGeoQuery
      countQuery == IF truthy(lat) /\ truthy(lng) THEN nearby ELSE NoGeoQuery
      request == [NoResponse EXCEPT
                    !.op = "list", !.user = caller, !.arg = includeHidden,
                    !.lat = lat, !.lng = lng, !.distance = distance,
                    !.pageQuery = geoQuery, !.countQuery = countQuery]
  IN  /\ Admit(r, sched)
      /\ last' = IF countDocumentsRejects(countQuery)
                 THEN [request EXCEPT !.code = 500, !.message = "Failed to retrieve issues"]
                 ELSE [request EXCEPT
                         !.code = 200, !.message = "Issues retrieved successfully",
                         !.result = {[id |-> i, isHidden |-> issues[i].isHidden] :
                                       i \in findNearby(caller, includeHidden, geoQuery)},
                         !.total = Cardinality(findNearby(caller, includeHidden, countQuery))]
      /\ UNCHANGED <<issues, flags, statusLogs, now, postSaveIsNew, req>>

----------------------------------------------------------------------------
(***************************************************************************)
(* calculateDistance (Haversine), in IEEE-754 double arithmetic, on        *)
(* coordinates next to (0, 0): a coordinate n stands for n * u degrees     *)
(* with u = 0x1.ca5dc1a63c1f8p-532 (about 1.27e-160), the unit for which   *)
(* the square of toRadians(u) / 2 is a quarter of the smallest positive    *)
(* double.  For angles x of this size Math.sin(x) = x, Math.cos(x) = 1,    *)
(* Math.sqrt(1 - a) = 1 and Math.atan2(s, 1) = s exactly, and a product    *)
(* is rounded to the nearest multiple of the smallest positive double.     *)
(***************************************************************************)
EarthRadius == 6371
TinyCoordinates == 0..MaxTiny

\* Math.sin(dLat / 2) * Math.sin(dLat / 2) for a difference of d units, in
\* multiples of the smallest positive double: d * d / 4 rounded to nearest
sinSquared(d) == (d * d + 2) \div 4

\* Math.sqrt(a), in hundredths of the square root of the smallest positive double
sqrt100(a) ==
  CHOOSE s \in 0..(100 * (a + 1)) : s * s <= 10000 * a /\ (s + 1) * (s + 1) > 10000 * a

calculateDistance(lat1, lng1, lat2, lng2) ==
  LET R == EarthRadius
      dLat == lat2 - lat1
      dLng == lng2 - lng1
      a == sinSquared(dLat) + 1 * 1 * sinSquared(dLng)
      c == 2 * sqrt100(a)
  IN  R * c

\* a caller computes the distance between two points
calculate(lat1, lng1, lat2, lng2) ==
  /\ last' = [NoResponse EXCEPT
                !.op = "distance",
                !.result = {[from |-> <<lat1, lng1>>, to |-> <<lat2, lng2>>,
                             distance |-> calculateDistance(lat1, lng1, lat2, lng2)]}]
  /\ UNCHANGED <<issues, flags, statusLogs, now, postSaveIsNew, req, admitted>>

----------------------------------------------------------------------------
(***************************************************************************)
(* Routes: the middleware each route runs before its handler.  A request   *)
(* carries the valid token of a registered user, or none (NoUser).         *)
(***************************************************************************)
Banned == {NumUsers}     \* registered users whose account is banned

\* authenticate: the user it stores in req.user; NoUser when it answers 401
authenticate(token) ==
  IF token = NoUser \/ token \in Banned THEN NoUser ELSE token

\* the routes whose middleware chain holds authenticate before the handler
AuthenticatedRoutes == {"create", "vote", "flag"}

\* req.user when the route's role gate, or its handler, reads it
routeUser(op, token) ==
  IF op \in AuthenticatedRoutes THEN authenticate(token) ELSE NoUser

\* a gate that lets every request through
authorizeAnyone(principal, roles) == 0

\* authorize(roles): the status it answers, 0 when it calls next()
authorize(principal, roles) ==
  IF principal = NoUser THEN 401
  ELSE IF RoleOf(principal) \notin roles THEN 403
  ELSE 0

\* a middleware answers the request; the handler is not called
Rejected(r, op, token, i, code, sched) ==
  /\ Admit(r, sched)
  /\ last' = [NoResponse EXCEPT
                !.op = op, !.user = token, !.issue = i, !.code = code,
                !.message = IF code = 401 THEN "Authentication required" ELSE "Access denied"]
  /\ UNCHANGED <<issues, flags, statusLogs, now, postSaveIsNew, req>>

\* router.post('/:id/vote', mongoIdValidation, authenticate, voteValidation, voteIssue)
voteRoute(r, token, i, action, sched) ==
  IF routeUser("vote", token) = NoUser
  THEN Rejected(r, "vote", token, i, 401, sched)
  ELSE voteIssueFind(r, routeUser("vote", token), i, action, sched)

\* router.put('/:id/status', mongoIdValidation, requireAgent, updateStatusValidation, updateIssueStatus)
statusRoute(r, token, i, status, est, assignedTo, sched) ==
  LET gate == authorize(routeUser("status", token), {"agent", "admin"}) IN
  IF gate # 0
  THEN Rejected(r, "status", token, i, gate, sched)
  ELSE updateIssueStatusFind(r, routeUser("status", token), i, status, est, assignedTo, sched)

\* router.delete('/:id', mongoIdValidation, requireAdmin, deleteIssue)
deleteRoute(r, token, i, sched) ==
  LET gate == authorize(routeUser("delete", token), {"admin"}) IN
  IF gate # 0
  THEN Rejected(r, "delete", token, i, gate, sched)
  ELSE deleteIssueFind(r, routeUser("delete", token), i, sched)

\* router.use(requireAdmin); router.put('/flags/:id/review', ..., reviewFlag)
reviewRoute(r, token, i, f, status, actionTaken, sched) ==
  LET gate == authorize(routeUser("review", token), {"admin"}) IN
  IF gate # 0
  THEN Rejected(r, "review", token, i, gate, sched)
  ELSE reviewFlagFind(r, routeUser("review", token), i, f, status, actionTaken, sched)

\* router.use(requireAdmin); router.put('/issues/:id/visibility', ..., toggleIssueVisibility)
visibilityRoute(r, token, i, isHidden, hiddenReason, sched) ==
  LET gate == authorize(routeUser("toggle", token), {"admin"}) IN
  IF gate # 0
  THEN Rejected(r, "toggle", token, i, gate, sched)
  ELSE toggleIssueVisibilityFind(r, routeUser("toggle", token), i, isHidden, hiddenReason, sched)

----------------------------------------------------------------------------
(***************************************************************************)
(* Voting under concurrent and under serial scheduling.                    *)
(***************************************************************************)
CreateSteps(sched) ==
  \/ \E r \in Req, i \in Issues : createIssue(r, Admin, i, sched)
  \/ \E r \in Req : createIssueLog(r)

ToggleSteps(sched) ==
  \/ \E r \in Req, i \in Issues, h \in BOOLEAN, hr \in {HiddenAdmin, NoString} :
       toggleIssueVisibilityFind(r, Admin, i, h, hr, sched)
  \/ \E r \in Req : toggleIssueVisibilitySave(r)

VoteSteps(sched) ==
  \/ \E r \in Req, u \in Voters, i \in Issues, a \in VoteActions : voteIssueFind(r, u, i, a, sched)
  \/ \E r \in Req : voteIssueSave(r)

VoteNextOf(sched) ==
  \/ CreateSteps(sched)
  \/ VoteSteps(sched)
  \/ ToggleSteps(sched)

VoteNext == VoteNextOf(Concurrent(VoteRequests))
VoteSerialNext == VoteNextOf(Serial(VoteRequests))

VoteSpec == Init /\ [][VoteNext]_vars
VoteSerialSpec == Init /\ [][VoteSerialNext]_vars

(***************************************************************************)
(* Flagging and moderation.                                                *)
(***************************************************************************)
FlagSteps(sched) ==
  \/ \E r \in Req, u \in Users, i \in Issues : flagIssueFind(r, u, i, sched)
  \/ \E r \in Req : flagIssueCheck(r)
  \/ \E r \in Req : flagIssueInsert(r)
  \/ \E r \in Req : flagPostSaveInc(r)
  \/ \E r \in Req : flagPostSaveFind(r)
  \/ \E r \in Req : flagPostSaveSave(r)

ReviewSteps(sched) ==
  \/ \E r \in Req, i \in Issues, f \in Users, st \in ReviewStatuses, a \in ReviewActions :
       reviewFlagFind(r, Admin, i, f, st, a, sched)
  \/ \E r \in Req : reviewFlagSave(r)
  \/ \E r \in Req : reviewFlagHide(r)

FlagNextOf(sched) ==
  \/ CreateSteps(sched)
  \/ FlagSteps(sched)
  \/ ReviewSteps(sched)
  \/ ToggleSteps(sched)

FlagNext == FlagNextOf(Concurrent(FlagRequests))
FlagSerialNext == FlagNextOf(Serial(FlagRequests))

FlagSpec == Init /\ [][FlagNext]_vars
FlagSerialSpec == Init /\ [][FlagSerialNext]_vars

\* flag filings only, one after another: no admin touches the issue
FilingNext ==
  \/ CreateSteps(Serial(FilingRequests))
  \/ FlagSteps(Serial(FilingRequests))

FilingSpec == Init /\ [][FilingNext]_vars

\* concurrent flag filings, no admin touches the issue
RaceFilingNext ==
  \/ CreateSteps(Concurrent(FilingRequests))
  \/ FlagSteps(Concurrent(FilingRequests))

RaceFilingSpec == Init /\ [][RaceFilingNext]_vars

\* flag filings and the admin's visibility toggles, one after another
ReshowNext ==
  \/ CreateSteps(Serial(ReshowRequests))
  \/ FlagSteps(Serial(ReshowRequests))
  \/ \E r \in Req, i \in Issues, h \in BOOLEAN :
       toggleIssueVisibilityFind(r, Admin, i, h, IF h THEN HiddenAdmin ELSE NoString,
                                 Serial(ReshowRequests))
  \/ \E r \in Req : toggleIssueVisibilitySave(r)

ReshowSpec == Init /\ [][ReshowNext]_vars

(***************************************************************************)
(* Status transitions.                                                     *)
(***************************************************************************)
StatusSteps(sched) ==
  \/ \E r \in Req, i \in Issues, st \in StatusTargets,
        p \in {<<NoDate, NoUser>>, <<EstimateDate, Agent>>} :
       updateIssueStatusFind(r, Agent, i, st, p[1], p[2], sched)
  \/ \E r \in Req : updateIssueStatusSave(r)
  \/ \E r \in Req : updateIssueStatusLog(r)

StatusNextOf(sched) ==
  \/ CreateSteps(sched)
  \/ StatusSteps(sched)
  \/ Tick

StatusNext == StatusNextOf(Concurrent(StatusRequests))
StatusSerialNext == StatusNextOf(Serial(StatusRequests))

StatusSpec == Init /\ [][StatusNext]_vars
StatusSerialSpec == Init /\ [][StatusSerialNext]_vars

(***************************************************************************)
(* Listing.                                                                *)
(***************************************************************************)
ListSteps(sched) ==
  \E r \in Req, c \in {NoUser} \cup Users, ih \in IncludeHiddenValues :
    getIssues(r, c, ih, "", "", "5", sched)

ListNext ==
  \/ CreateSteps(Concurrent(ListRequests))
  \/ ToggleSteps(Concurrent(ListRequests))
  \/ ListSteps(Concurrent(ListRequests))

ListSpec == Init /\ [][ListNext]_vars

(***************************************************************************)
(* Everything that writes an issue, interleaved: votes, flag filings and   *)
(* removals, reviews, status updates and visibility toggles.               *)
(***************************************************************************)
UnflagSteps(sched) ==
  \/ \E r \in Req, i \in Issues, f \in Users : flagPreRemove(r, i, f, sched)
  \/ \E r \in Req : flagRemove(r)

HiddenNext ==
  \/ CreateSteps(Concurrent(HiddenRequests))
  \/ \E r \in Req, i \in Issues : voteIssueFind(r, Agent, i, "upvote", Concurrent(HiddenRequests))
  \/ \E r \in Req : voteIssueSave(r)
  \/ \E r \in Req, i \in Issues : flagIssueFind(r, Agent, i, Concurrent(HiddenRequests))
  \/ \E r \in Req : flagIssueCheck(r)
  \/ \E r \in Req : flagIssueInsert(r)
  \/ \E r \in Req : flagPostSaveInc(r)
  \/ \E r \in Req : flagPostSaveFind(r)
  \/ \E r \in Req : flagPostSaveSave(r)
  \/ \E r \in Req, i \in Issues : flagPreRemove(r, i, Agent, Concurrent(HiddenRequests))
  \/ \E r \in Req : flagRemove(r)
  \/ \E r \in Req, i \in Issues, a \in ReviewActions :
       reviewFlagFind(r, Admin, i, Agent, "Reviewed", a, Concurrent(HiddenRequests))
  \/ \E r \in Req : reviewFlagSave(r)
  \/ \E r \in Req : reviewFlagHide(r)
  \/ \E r \in Req, i \in Issues :
       updateIssueStatusFind(r, Agent, i, "Resolved", NoDate, NoUser, Concurrent(HiddenRequests))
  \/ \E r \in Req : updateIssueStatusSave(r)
  \/ \E r \in Req : updateIssueStatusLog(r)
  \/ ToggleSteps(Concurrent(HiddenRequests))

HiddenSpec == Init /\ [][HiddenNext]_vars

\* flag filings, removals and reviews, one after another
CountNext ==
  \/ CreateSteps(Serial(FlagRequests))
  \/ FlagSteps(Serial(FlagRequests))
  \/ UnflagSteps(Serial(FlagRequests))
  \/ ReviewSteps(Serial(FlagRequests))

CountSpec == Init /\ [][CountNext]_vars

(***************************************************************************)
(* Deletion of an issue, interleaved with flag filings and status updates. *)
(***************************************************************************)
DeleteSteps(sched) ==
  \/ \E r \in Req, i \in Issues : deleteIssueFind(r, Admin, i, sched)
  \/ \E r \in Req : deleteIssueLogs(r)
  \/ \E r \in Req : deleteIssueFlags(r)
  \/ \E r \in Req : deleteIssueDelete(r)

DeleteNext ==
  \/ CreateSteps(Concurrent(DeleteRequests))
  \/ DeleteSteps(Concurrent(DeleteRequests))
  \/ FlagSteps(Concurrent(DeleteRequests))
  \/ StatusSteps(Concurrent(DeleteRequests))

DeleteSpec == Init /\ [][DeleteNext]_vars

\* flag filings, reviews and visibility toggles, one after another, with
\* enough requests for an auto-hide followed by a review
ReviewNext ==
  \/ CreateSteps(Serial(ReviewRequests))
  \/ FlagSteps(Serial(ReviewRequests))
  \/ ReviewSteps(Serial(ReviewRequests))
  \/ ToggleSteps(Serial(ReviewRequests))

ReviewSpec == Init /\ [][ReviewNext]_vars

(***************************************************************************)
(* Concurrent vote requests from different users: a user's request is      *)
(* admitted only while no other request of that user is in flight.  No     *)
(* issue is ever hidden.                                                   *)
(***************************************************************************)
DistinctVoteSteps(sched) ==
  \/ \E r \in Req, u \in Voters, i \in Issues, a \in VoteActions :
       /\ \A q \in Req : req[q].op # "idle" => req[q].user # u
       /\ voteIssueFind(r, u, i, a, sched)
  \/ \E r \in Req : voteIssueSave(r)

DistinctVoteNext ==
  \/ CreateSteps(Concurrent(VoteRequests))
  \/ DistinctVoteSteps(Concurrent(VoteRequests))

DistinctVoteSpec == Init /\ [][DistinctVoteNext]_vars

(***************************************************************************)
(* Listing around a centre.                                                *)
(***************************************************************************)
NearSteps(sched) ==
  \E r \in Req, c \in {NoUser, NumUsers}, ih \in IncludeHiddenValues,
     lat \in LatValues, lng \in LngValues, d \in DistanceValues :
    getIssues(r, c, ih, lat, lng, d, sched)

GeoNext ==
  \/ CreateSteps(Serial(GeoRequests))
  \/ ToggleSteps(Serial(GeoRequests))
  \/ NearSteps(Serial(GeoRequests))

GeoSpec == Init /\ [][GeoNext]_vars

(***************************************************************************)
(* The distance function applied to every pair of points of the grid.      *)
(***************************************************************************)
DistanceNext ==
  \E lat1 \in TinyCoordinates, lng1 \in TinyCoordinates,
     lat2 \in TinyCoordinates, lng2 \in TinyCoordinates :
    calculate(lat1, lng1, lat2, lng2)

DistanceSpec == Init /\ [][DistanceNext]_vars

(***************************************************************************)
(* Requests entering through the routes, served one after another.  No     *)
(* request passes the gate of a role-gated route, so the later steps of    *)
(* those handlers are no steps of this specification.                      *)
(***************************************************************************)
Tokens == {NoUser} \cup Users

RouteNext ==
  \/ CreateSteps(Serial(RouteRequests))
  \/ \E r \in Req, t \in Tokens, i \in Issues, a \in VoteActions :
       voteRoute(r, t, i, a, Serial(RouteRequests))
  \/ \E r \in Req : voteIssueSave(r)
  \/ \E r \in Req, t \in Tokens, i \in Issues, st \in StatusTargets :
       statusRoute(r, t, i, st, NoDate, NoUser, Serial(RouteRequests))
  \/ \E r \in Req, t \in Tokens, i \in Issues :
       deleteRoute(r, t, i, Serial(RouteRequests))
  \/ \E r \in Req, t \in Tokens, i \in Issues, f \in Users :
       reviewRoute(r, t, i, f, "Reviewed", "Issue Hidden", Serial(RouteRequests))
  \/ \E r \in Req, t \in Tokens, i \in Issues :
       visibilityRoute(r, t, i, TRUE, HiddenAdmin, Serial(RouteRequests))

RouteSpec == Init /\ [][RouteNext]_vars

(***************************************************************************)
(* Everything that writes, the admin's delete included.                    *)
(***************************************************************************)
LedgerNext ==
  \/ HiddenNext
  \/ DeleteSteps(Concurrent(HiddenRequests))

LedgerSpec == Init /\ [][LedgerNext]_vars

(***************************************************************************)
(* The whole engine.                                                       *)
(***************************************************************************)
Next ==
  \/ VoteNext
  \/ FlagNext
  \/ StatusNext
  \/ ListNext

Spec == Init /\ [][Next]_vars

----------------------------------------------------------------------------
(***************************************************************************)
(* Properties.                                                             *)
(***************************************************************************)
occurrences(s, x) == Cardinality({k \in 1..Len(s) : s[k] = x})

FlaggedBy(i) == {u \in Users : flags[i][u] # <<>>}

\* C1: under serial vote requests the stored upvote count of every issue
\* equals the number of distinct users in its voter list, which holds no user
\* twice; an upvote by a user already in the list completes with 200 'You
\* have already upvoted this issue' and changes no issue.
C1_UpvotesMatchVoters ==
  /\ [](\A i \in Issues :
          /\ issues[i].upvotes = Cardinality(Range(issues[i].upvotedBy))
          /\ Len(issues[i].upvotedBy) = Cardinality(Range(issues[i].upvotedBy)))
  /\ [][\A r \in Req :
          (/\ req[r].op = "vote" /\ req[r].arg = "upvote"
           /\ includes(issues[req[r].issue].upvotedBy, req[r].user)
           /\ req'[r].op = "idle")
          => /\ issues' = issues
             /\ last'.code = 200
             /\ last'.message = "You have already upvoted this issue"]_vars

\* a second upvote by the only voter has been answered
C1_Witness ==
  /\ last.op = "vote" /\ last.arg = "upvote"
  /\ last.message = "You have already upvoted this issue"
  /\ issues[last.issue].upvotedBy = <<last.user>>
  /\ issues[last.issue].upvotes = 1

\* C2: once the vote requests in flight have completed, no user is in the
\* voter list of an issue more than once, however the requests interleaved.
C2_UpvoteCountedOnce ==
  AllIdle => \A i \in Issues, u \in Voters : occurrences(issues[i].upvotedBy, u) <= 1

\* C3: there is at most one Flag per (issue, flagging user), also when
\* concurrent flag requests have both passed the hasUserFlagged pre-check.
C3_OneFlagPerUser ==
  \A i \in Issues, u \in Users : Len(flags[i][u]) <= 1

\* a request that passed the pre-check is about to insert although the user's
\* flag has been stored meanwhile
C3_Witness ==
  \E r \in Req :
    /\ req[r].op = "flag" /\ req[r].pc = "insert"
    /\ Len(flags[req[r].issue][req[r].user]) = 1

\* C4: a flag request refused because the user already has a flag on the
\* issue is answered with the duplicate-flag client error, whether the
\* pre-check or the unique index detected the duplicate.
C4_DuplicateIsClientError ==
  (/\ last.op = "flag"
   /\ last.code \notin {200, 404}
   /\ hasUserFlagged(last.issue, last.user))
  => /\ last.code = 400
     /\ last.message = "You have already flagged this issue"

\* C5: with flags filed one after another and no admin action, an issue is
\* visible while fewer than five users have flagged it and is hidden, with the
\* auto-hide reason and no hiddenBy, once five have.
C5_FifthFlagHides ==
  \A i \in Issues :
    (AllIdle /\ issues[i].life = "live")
    => IF Cardinality(FlaggedBy(i)) < FlagThreshold
       THEN ~issues[i].isHidden
       ELSE /\ issues[i].isHidden
            /\ issues[i].hiddenReason = HiddenAuto
            /\ issues[i].hiddenBy = NoUser

\* C6: a vote on a hidden issue is answered with the Forbidden failure (403).
\* Under serial requests the last response is a vote's while the issue is
\* hidden only if the vote was cast on the hidden issue.
C6_HiddenVoteForbidden ==
  (last.op = "vote" /\ issues[last.issue].isHidden) => last.code = 403

\* C7: a flag filed on an issue an admin has hidden is answered with the
\* Forbidden failure (403) and creates no Flag.  Under serial requests the last
\* response is a flag's while the issue is hidden by an admin only if the flag
\* was filed on the hidden issue.
C7_HiddenFlagForbidden ==
  (/\ last.op = "flag"
   /\ issues[last.issue].isHidden
   /\ issues[last.issue].hiddenBy # NoUser)
  => /\ last.code = 403
     /\ ~hasUserFlagged(last.issue, last.user)

\* C8: a listing answered to an unauthenticated caller or to a citizen holds
\* no hidden issue, whatever includeHidden was.
C8_NoHiddenForCitizens ==
  (last.op = "list" /\ RoleOf(last.user) \in {"none", "citizen"})
  => \A x \in last.result : ~x.isHidden

\* C9: under serial requests every status update answered with 200 appends
\* exactly one entry to the issue's log and nothing else changes a log; the
\* entry's status is the requested status, and its previousStatus is the
\* status the issue had before the call (the status of the entry before it,
\* which is the issue's status whenever no request is in flight), also when
\* the requested status is the one the issue already has.
C9_OneLogEntryPerTransition ==
  /\ [](\A i \in Issues :
          /\ \A k \in 2..Len(statusLogs[i]) :
               statusLogs[i][k].previousStatus = statusLogs[i][k - 1].status
          /\ (AllIdle /\ statusLogs[i] # <<>>)
             => statusLogs[i][Len(statusLogs[i])].status = issues[i].status)
  /\ [][/\ \A i \in Issues :
             statusLogs'[i] # statusLogs[i]
             => /\ Len(statusLogs'[i]) = Len(statusLogs[i]) + 1
                /\ SubSeq(statusLogs'[i], 1, Len(statusLogs[i])) = statusLogs[i]
        /\ \A r \in Req :
             (req[r].op = "status" /\ req'[r].op = "idle" /\ last'.code = 200)
             => /\ Len(statusLogs'[req[r].issue]) = Len(statusLogs[req[r].issue]) + 1
                /\ statusLogs'[req[r].issue][Len(statusLogs'[req[r].issue])].status = req[r].arg]_vars

\* a status change and a transition to the status the issue already had have
\* both been logged
C9_Witness ==
  \E i \in Issues :
    /\ AllIdle /\ last.op = "status" /\ last.code = 200
    /\ \E k \in 2..Len(statusLogs[i]) :
         statusLogs[i][k].previousStatus # statusLogs[i][k].status
    /\ \E k \in 2..Len(statusLogs[i]) :
         statusLogs[i][k].previousStatus = statusLogs[i][k].status

Resolving == {"Resolved", "Closed"}

\* C10: under serial status updates actualResolutionDate, once written, is
\* never changed or cleared; it is written exactly when a transition to
\* Resolved or Closed has been made, by the first of them (it lies between
\* the entry logged before that transition and the transition's own entry).
C10_ResolutionDateWrittenOnce ==
  /\ [][\A i \in Issues :
          issues[i].actualResolutionDate # NoDate
          => issues'[i].actualResolutionDate = issues[i].actualResolutionDate]_vars
  /\ [](\A i \in Issues :
          AllIdle =>
            LET log == statusLogs[i]
                hits == {k \in 1..Len(log) : log[k].status \in Resolving}
            IN  IF hits = {}
                THEN issues[i].actualResolutionDate = NoDate
                ELSE LET first == CHOOSE k \in hits : \A j \in hits : k <= j
                     IN  /\ issues[i].actualResolutionDate # NoDate
                         /\ issues[i].actualResolutionDate <= log[first].createdAt
                         /\ issues[i].actualResolutionDate >= log[first - 1].createdAt)

\* an issue resolved earlier has been re-opened and resolved again at a later time
C10_Witness ==
  \E i \in Issues :
    /\ AllIdle
    /\ Len(statusLogs[i]) = 4
    /\ statusLogs[i][2].status = "Resolved"
    /\ statusLogs[i][3].status = "In Progress"
    /\ statusLogs[i][4].status = "Closed"
    /\ statusLogs[i][4].createdAt > issues[i].actualResolutionDate
    /\ issues[i].actualResolutionDate # NoDate

\* C11: in every state, also while status updates interleave, a stored issue
\* whose status is Resolved or Closed has an actualResolutionDate.
C11_ResolvedHasDate ==
  \A i \in Issues :
    (issues[i].life = "live" /\ issues[i].status \in Resolving)
    => issues[i].actualResolutionDate # NoDate

\* an issue is Closed while another status update, read before, is still in flight
C11_Witness ==
  \E i \in Issues, r \in Req :
    /\ issues[i].status = "Closed"
    /\ req[r].op = "status" /\ req[r].pc = "save" /\ req[r].issue = i
    /\ req[r].doc.actualResolutionDate = NoDate

StatusFields(i) ==
  <<issues[i].status, issues[i].assignedTo, issues[i].actualResolutionDate, statusLogs[i]>>

\* C12: through the routes, a status update is in progress only for a
\* principal with role agent or admin; a status request sent by a citizen or
\* without credentials is answered 401 or 403; and status, assignee,
\* resolution date and status log of an issue change only with the creation
\* of the issue or in a status update of an agent or admin.
C12_StatusNeedsAgent ==
  /\ [](\A r \in Req : req[r].op = "status" => RoleOf(req[r].user) \in {"agent", "admin"})
  /\ []((last.op = "status" /\ RoleOf(last.user) \in {"none", "citizen"})
         => last.code \in {401, 403})
  /\ [][\A i \in Issues :
          StatusFields(i)' # StatusFields(i)
          => \E r \in Req :
               /\ req[r].issue = i \/ req'[r].issue = i
               /\ \/ req[r].op = "create" \/ req'[r].op = "create"
                  \/ req[r].op = "status" /\ RoleOf(req[r].user) \in {"agent", "admin"}]_vars

\* a citizen's status request on a stored issue has been rejected
C12_Witness ==
  /\ last.op = "status" /\ RoleOf(last.user) = "citizen"
  /\ last.code \in {401, 403}
  /\ issues[last.issue].life = "live"
  /\ issues[last.issue].status = "Reported"

RequiredRoles(op) == IF op = "status" THEN {"agent", "admin"} ELSE {"admin"}

\* C13: a request to a role-gated route that carries the valid token of a
\* non-banned user holding the required role is not stopped by the gate (it
\* is answered neither 401 nor 403).
C13_RoleHolderPassesGate ==
  (/\ last.op \in {"status", "delete", "review", "toggle"}
   /\ last.user \notin Banned
   /\ RoleOf(last.user) \in RequiredRoles(last.op))
  => last.code \notin {401, 403}

\* C14: a stored issue that is hidden becomes visible only in the step in
\* which a visibility request of an admin with isHidden = false completes;
\* no vote, flag filing, flag removal, flag review or status update, however
\* interleaved, makes it visible.
C14_HiddenUntilAdminShows ==
  [][\A i \in Issues :
       (issues[i].isHidden /\ issues'[i].life = "live" /\ ~issues'[i].isHidden)
       => \E r \in Req :
            /\ req[r].op = "toggle" /\ req[r].arg = "show" /\ req[r].issue = i
            /\ RoleOf(req[r].user) = "admin"
            /\ req'[r].op = "idle"]_vars

\* a vote read while the issue was visible has been saved after the issue was
\* hidden, and the issue is still hidden
C14_Witness ==
  \E i \in Issues :
    /\ issues[i].isHidden
    /\ last.op = "vote" /\ last.issue = i /\ last.code = 200
    /\ issues[i].upvotes = 1

\* C15: whenever no request is in flight, the flagCount of a stored issue is
\* the number of Flag documents that reference it and is not negative.
C15_FlagCountMatchesFlags ==
  \A i \in Issues :
    (AllIdle /\ issues[i].life = "live")
    => /\ issues[i].flagCount = Cardinality(FlaggedBy(i))
       /\ issues[i].flagCount >= 0

\* C16: once an issue has been deleted, no Flag and no status-log entry of a
\* status update references it, whatever flag filings and status updates
\* were interleaved with the delete.
C16_DeleteCascades ==
  \A i \in Issues :
    issues[i].life = "deleted"
    => /\ FlaggedBy(i) = {}
       /\ \A k \in 1..Len(statusLogs[i]) : statusLogs[i][k].isSystemGenerated

\* C17: with requests served one after another, a review with actionTaken
\* 'Issue Hidden' that is answered 200 leaves the issue hidden, with the
\* flag-review reason and the reviewer as hiddenBy, whatever flagCount,
\* isHidden and hiddenReason were before.
C17_ReviewHides ==
  [][\A r \in Req :
       (/\ req[r].op = "review" /\ req[r].arg2 = "Issue Hidden"
        /\ req'[r].op = "idle" /\ last'.code = 200)
       => /\ issues'[req[r].issue].isHidden
          /\ issues'[req[r].issue].hiddenReason = HiddenReview
          /\ issues'[req[r].issue].hiddenBy = req[r].user]_vars

\* five flags had auto-hidden the issue (no admin has made it visible since:
\* it still carries no hiddenBy but the reviewer's), and a review has replaced
\* the auto-hide reason
C17_Witness ==
  \E i \in Issues :
    /\ last.op = "review" /\ last.code = 200 /\ last.issue = i
    /\ issues[i].flagCount >= FlagThreshold
    /\ issues[i].isHidden
    /\ issues[i].hiddenReason = HiddenReview
    /\ issues[i].hiddenBy = last.user

\* C18: a listing that supplies a valid centre and a radius is answered with
\* exactly the issues that pass the other filters and lie within the radius
\* (in kilometres) of the centre.
C18_NearbyListsExactlyWithinRadius ==
  [][(/\ admitted' # admitted
      /\ last'.op = "list" /\ last'.lat # "" /\ last'.lng # ""
      /\ isValidCoordinates(parseFloat(last'.lng), parseFloat(last'.lat)))
     => /\ last'.code = 200
        /\ {x.id : x \in last'.result}
             = {i \in findIssues(last'.user, last'.arg) :
                  MetersPerDegree
                    * (IF coordinates(i)[1] < parseFloat(last'.lng)
                       THEN parseFloat(last'.lng) - coordinates(i)[1]
                       ELSE coordinates(i)[1] - parseFloat(last'.lng))
                    <= 1000 * parseFloat(last'.distance)}]_vars

\* C19: the distance function is symmetric, is 0 from a point to itself,
\* and is 0 only between equal points.
C19_DistanceSymmetricZeroIffEqual ==
  last.op = "distance"
  => \A x \in last.result :
       /\ calculateDistance(x.to[1], x.to[2], x.from[1], x.from[2]) = x.distance
       /\ x.from = x.to => x.distance = 0
       /\ x.distance = 0 => x.from = x.to

\* C20: once the concurrent vote requests of different users on a visible
\* issue have all completed, the stored upvote count equals the number of
\* users in the voter list, however the requests interleaved.
C20_CountMatchesVotersAfterRace ==
  AllIdle => \A i \in Issues :
               issues[i].life = "live" /\ ~issues[i].isHidden
               => issues[i].upvotes = Len(issues[i].upvotedBy)

\* C21: once the concurrent status transitions on an issue have all
\* completed, the issue's log in creation order is a consistent history:
\* each entry's previousStatus is the status of the entry before it, and the
\* status of the last entry is the issue's current status (for an issue
\* whose creation entry was written before any transition was logged).
C21_LogIsConsistentHistory ==
  AllIdle => \A i \in Issues :
               LET log == statusLogs[i]
               IN  (log # <<>> /\ log[1].previousStatus = NoString)
                   => /\ \A k \in 2..Len(log) : log[k].previousStatus = log[k - 1].status
                      /\ log[Len(log)].status = issues[i].status

\* C22: when two transitions to Resolved or Closed run concurrently on an
\* issue without a resolution timestamp, the timestamp written by the first
\* save is not overwritten by the other.
C22_FirstResolutionDateKept ==
  [][\A i \in Issues :
       (issues[i].life = "live" /\ issues[i].actualResolutionDate # NoDate)
       => issues'[i].actualResolutionDate = issues[i].actualResolutionDate]_vars

\* C23: once concurrent flag filings by five or more distinct users on a
\* visible issue have all completed, with no admin visibility action, the
\* issue is hidden and its flagCount is the number of flags filed.
C23_FiveConcurrentFlagsHide ==
  \A i \in Issues :
    (AllIdle /\ issues[i].life = "live" /\ Cardinality(FlaggedBy(i)) >= FlagThreshold)
    => /\ issues[i].isHidden
       /\ issues[i].flagCount = Cardinality(FlaggedBy(i))

\* C24: the auto-hide evaluation runs on every successful new flag, not
\* only at the crossing of the threshold: when an admin has just made an
\* issue visible that five or more users have flagged, the next successfully
\* filed flag hides it again, with the auto-hide reason and no hiddenBy.
C24_FlagAfterShowHidesAgain ==
  [][\A r \in Req :
       LET i == req[r].issue
       IN  (/\ req[r].op = "flag" /\ req'[r].op = "idle"
            /\ last'.op = "flag" /\ last'.code = 200
            /\ last.op = "toggle" /\ last.arg = "show" /\ last.code = 200 /\ last.issue = i
            /\ Cardinality({u \in Users : flags'[i][u] # <<>>}) > FlagThreshold)
           => /\ issues'[i].isHidden
              /\ issues'[i].hiddenReason = HiddenAuto
              /\ issues'[i].hiddenBy = NoUser]_vars

\* C25: a flag is created Pending and leaves Pending exactly once: after a
\* flag has been reviewed, no later review request changes its status,
\* reviewer, action taken or review timestamp.
C25_FlagReviewedOnce ==
  [][\A i \in Issues, f \in Users :
       /\ (flags[i][f] = <<>> /\ flags'[i][f] # <<>>) => flags'[i][f][1].status = "Pending"
       /\ (flags[i][f] # <<>> /\ flags[i][f][1].status # "Pending" /\ flags'[i][f] # <<>>)
          => flags'[i][f][1] = flags[i][f][1]]_vars

C27_FailedTransitionChangesNothing ==
  /\ [](\A i \in Issues :
          /\ issues[i].status \in Statuses
          /\ \A k \in 1..Len(statusLogs[i]) : statusLogs[i][k].status \in Statuses)
  /\ [][/\ \A r \in Req :
             (req[r].op = "idle" /\ req'[r].op = "status")
             => (req'[r].arg \in Statuses /\ issues[req'[r].issue].life = "live")
        /\ (admitted' # admitted /\ req' = req /\ last'.op = "status")
           => /\ last'.code = IF last'.arg \notin Statuses THEN 400 ELSE 404
              /\ last'.arg \notin Statuses \/ issues[last'.issue].life # "live"
              /\ issues' = issues
              /\ statusLogs' = statusLogs]_vars

\* a request with an unknown target has been refused while the issue exists
\* and is no longer Reported
C27_Witness ==
  /\ last.op = "status" /\ last.code = 400 /\ last.arg \notin Statuses
  /\ issues[last.issue].life = "live" /\ issues[last.issue].status = "Closed"
  /\ Len(statusLogs[last.issue]) = 2

\* C28: the status log is append-only: a step that changes the log of an
\* issue either belongs to an admin's delete of that issue or keeps every
\* entry the log had, unchanged and in place, and adds one entry at the end.
C28_StatusLogAppendOnly ==
  [][\A i \in Issues :
       statusLogs'[i] # statusLogs[i]
       => \/ /\ \E r \in Req : req[r].op = "delete" /\ req[r].issue = i /\ req'[r] # req[r]
             /\ statusLogs'[i] = <<>>
          \/ /\ Len(statusLogs'[i]) = Len(statusLogs[i]) + 1
             /\ SubSeq(statusLogs'[i], 1, Len(statusLogs[i])) = statusLogs[i]]_vars

\* a status update has been logged after the creation entry while a vote, a
\* flag, a review and a visibility change have left the log alone
C28_Witness ==
  \E i \in Issues :
    /\ Len(statusLogs[i]) = 2
    /\ statusLogs[i][1].previousStatus = NoString
    /\ statusLogs[i][2].status = "Resolved"
    /\ issues[i].life = "live"
    /\ issues[i].isHidden
    /\ issues[i].upvotes = 1
    /\ flags[i][Agent] # <<>>

\* C29: a listing answered to an agent or an admin who opts in with
\* includeHidden=true holds the hidden issues along with the visible ones,
\* and the same listing without the opt-in holds no hidden issue.
C29_StaffOptInSeesHidden ==
  [][(/\ admitted' # admitted /\ req' = req
      /\ last'.op = "list" /\ last'.code = 200
      /\ RoleOf(last'.user) \in {"agent", "admin"})
     => IF last'.arg = "true"
        THEN {x.id : x \in last'.result} = {i \in Issues : issues[i].life = "live"}
        ELSE \A x \in last'.result : ~x.isHidden]_vars

\* C30: for every listing request the filter counted for the pagination
\* total is the filter that selected the page (also when lat and lng are
\* supplied but are not valid coordinates: both apply the proximity filter or
\* neither does), and the total of an answered listing is the number of
\* issues selected.
C30_TotalCountsThePageFilter ==
  [][(admitted' # admitted /\ req' = req /\ last'.op = "list")
     => /\ last'.countQuery = last'.pageQuery
        /\ last'.code = 200 => last'.total = Cardinality(last'.result)]_vars

=============================================================================
